---- MODULE Spec2Model ----
(***************************************************************************)
(* poke-broker: the two-agent trade optimiser of src/trade_suggestor.py.   *)
(*                                                                         *)
(*   maximize_card_distribution  builds and solves the binary program      *)
(*   get_suggested_trades        decodes the solved variables into a table *)
(*   validate_suggested_trades   runs the four consistency checks          *)
(*                                                                         *)
(* Identifiers (agents, items) are Python strings; they are modelled as    *)
(* sequences of one-character strings so that str(tuple) and the           *)
(* replace_all / split_exact decoding are computed character by character. *)
(* The trade DataFrame is a bag of rows (the group_by counts see           *)
(* duplicate rows); the inventory and price DataFrames are sets of rows.   *)
(***************************************************************************)
EXTENDS Integers, Sequences, FiniteSets, Bags, TLC

VARIABLES
    pc,               \* position in the optimise-then-extract sequence
    cards,            \* maximize_card_distribution(cards=...)
    prices,           \* maximize_card_distribution(prices=...): item -> price
    inventory,        \* maximize_card_distribution(inventory=...): (agent,item) -> qty
    price_tolerance,  \* <<num, den>>: the fraction num/den
    default_price,    \* maximize_card_distribution(default_price=...)
    traders,          \* list(set(first elements of inventory keys))
    decisions,        \* decision key -> solution_value()
    status,           \* solver.Solve() status
    price_data,       \* get_suggested_trades(price_data=...)
    inventory_table,  \* get_suggested_trades / validate_suggested_trades(inventory=...)
    out,              \* the trade table (suggested_trades)
    verdict,          \* result of validate_suggested_trades: "ok" or the assert message
    values_read       \* whether solution_value() has been read by the extraction

vars == <<pc, cards, prices, inventory, price_tolerance, default_price, traders,
          decisions, status, price_data, inventory_table, out, verdict, values_read>>

----------------------------------------------------------------------------
(* Bounds of the model *)

MaxQty == 2
MaxTrades == 2
MaxRows == 2
MaxKeys == 2

----------------------------------------------------------------------------
(* Generic helpers *)

Range(s) == {s[i] : i \in DOMAIN s}

Reverse(s) == [i \in 1..Len(s) |-> s[Len(s) + 1 - i]]

Max(a, b) == IF a >= b THEN a ELSE b

RECURSIVE SumF(_, _)
SumF(f, S) ==
    IF S = {} THEN 0
    ELSE LET x == CHOOSE y \in S : TRUE
         IN  f[x] + SumF(f, S \ {x})

RECURSIVE Concat(_)
Concat(ss) == IF ss = <<>> THEN <<>> ELSE Head(ss) \o Concat(Tail(ss))

\* All sequences over S of length at most n.
SeqsUpTo(S, n) == UNION {[1..k -> S] : k \in 0..n}

\* All subsets of S with at most n elements.
RECURSIVE SubsetsUpTo(_, _)
SubsetsUpTo(S, n) ==
    IF n = 0 THEN {{}}
    ELSE LET P == SubsetsUpTo(S, n - 1)
         IN  P \cup {T \cup {x} : T \in P, x \in S}

\* All orderings of a finite set.
Orderings(S) ==
    {s \in [1..Cardinality(S) -> S] : \A i, j \in 1..Cardinality(S) : i # j => s[i] # s[j]}

\* The bag holding the rows of a sequence.
BagOfSeq(s) ==
    [r \in Range(s) |-> Cardinality({i \in DOMAIN s : s[i] = r})]

\* A polars null in a string column, and in the price column.
Null == <<"\\N">>

NullPrice == <<>>

----------------------------------------------------------------------------
(* validate_suggested_trades *)

\* The group key of a row: its values in the group_by columns.
GroupKey(r, cols) == [c \in cols |-> r[c]]

\* pl.count() of the group of key k in trade table t.
CountRows(t, cols, k) ==
    SumF([r \in BagToSet(t) |-> IF GroupKey(r, cols) = k THEN t[r] ELSE 0],
         BagToSet(t))

\* An inventory row matched by the left join of a trade row.  polars never
\* matches a null join key.
JoinsInventory(tr, iv) ==
    /\ tr.from = iv.trader
    /\ tr.price_id = iv.price_id
    /\ tr.id # Null /\ tr.id = iv.id
    /\ tr.name # Null /\ tr.name = iv.name

\* Check 1: the left join against the inventory, filtered on quantity < 2,
\* is empty.  A trade row with no matching inventory row joins to a null
\* quantity, null < 2 is null, and filter drops the row.
GiverLacks(trs, inv) ==
    \E tr \in BagToSet(trs) : \E iv \in inv :
        JoinsInventory(tr, iv) /\ iv.quantity < 2

\* Some group of the table has more than one row: a row occurs twice, or two
\* different rows fall in the same group.
SomeGroupOverOne(trs, cols) ==
    \E g \in BagToSet(trs) :
        \/ trs[g] > 1
        \/ \E r \in BagToSet(trs) : r # g /\ GroupKey(r, cols) = GroupKey(g, cols)

\* Check 2: group_by price_id, n_trades > 1.
TradedTwice(trs) ==
    SomeGroupOverOne(trs, {"price_id"})

\* Check 3: group_by (to, price_id), n_receives > 1.
ReceivedTwice(trs) ==
    SomeGroupOverOne(trs, {"to", "price_id"})

\* Check 4: group_by (from, price_id), n_gives > 1.
GivenTwice(trs) ==
    SomeGroupOverOne(trs, {"from", "price_id"})

MsgNotHeld == "Suggested trades include cards that the giving trader does not have."
MsgTraded == "Suggested trades include cards that are traded more than once."
MsgReceived == "Suggested trades include cards that are received more than once."
MsgGiven == "Suggested trades include cards that are given more than once."

\* Faulty variant: the check on price_id groups is left out.
ValidateWithoutTradedCheck(trs, inv) ==
    IF GiverLacks(trs, inv) THEN MsgNotHeld
    ELSE IF ReceivedTwice(trs) THEN MsgReceived
    ELSE IF GivenTwice(trs) THEN MsgGiven
    ELSE "ok"

\* The four asserts in source order; "ok" stands for `return True`, a message
\* for the AssertionError carrying it.
validate_suggested_trades(trs, inv) ==
    IF GiverLacks(trs, inv) THEN MsgNotHeld
    ELSE IF TradedTwice(trs) THEN MsgTraded
    ELSE IF ReceivedTwice(trs) THEN MsgReceived
    ELSE IF GivenTwice(trs) THEN MsgGiven
    ELSE "ok"

----------------------------------------------------------------------------
(* str(_trade) and its decoding in get_suggested_trades *)

Quote == "'"
DQuote == "\""
Backslash == "\\"

\* Python's repr of a str: single quotes unless the text holds a single and
\* no double quote; the chosen quote and the backslash are escaped.
PyRepr(s) ==
    LET q == IF Quote \in Range(s) /\ DQuote \notin Range(s) THEN DQuote ELSE Quote
        esc(c) == IF c = Backslash \/ c = q THEN <<Backslash, c>> ELSE <<c>>
    IN  <<q>> \o Concat([i \in DOMAIN s |-> esc(s[i])]) \o <<q>>

\* str() of a tuple of str: "(" + ", ".join(map(repr, t)) + ")".
PyStrTuple(k) ==
    <<"(">>
    \o Concat([i \in DOMAIN k |->
                 IF i = 1 THEN PyRepr(k[i]) ELSE <<",", " ">> \o PyRepr(k[i])])
    \o (IF Len(k) = 1 THEN <<",">> ELSE <<>>)
    \o <<")">>

\* The four replace_all calls: every "(", ")", " " and "'" is removed.
StripChars == {"(", ")", " ", Quote}

ReplaceAll(s) == SelectSeq(s, LAMBDA c : c \notin StripChars)

RECURSIVE Split(_, _)
Split(s, sep) ==
    IF \A i \in DOMAIN s : s[i] # sep THEN <<s>>
    ELSE LET i == CHOOSE j \in DOMAIN s : s[j] = sep /\ \A m \in 1..(j - 1) : s[m] # sep
         IN  <<SubSeq(s, 1, i - 1)>> \o Split(SubSeq(s, i + 1, Len(s)), sep)

\* str.split_exact(by, n): a struct of n + 1 fields; missing fields are null,
\* pieces past the n-th split are dropped.
SplitExact(s, sep, n) ==
    LET parts == Split(s, sep)
    IN  [i \in 1..(n + 1) |-> IF i <= Len(parts) THEN parts[i] ELSE Null]

\* A decision key as the extraction sees it: (from, to, price_id).
DecodeKey(k) == SplitExact(ReplaceAll(PyStrTuple(k)), ",", 2)

----------------------------------------------------------------------------
(* get_suggested_trades *)

\* The keys kept by filter(pl.col('trade') > 0).
Selected(dv) == {k \in DOMAIN dv : dv[k] > 0}

\* The trades after the decoding and the filter: <<from, to, price_id>> of
\* every selected key, one row per key.
DecodedTrades(dv) == [k \in Selected(dv) |-> DecodeKey(k)]

\* A row of the left join against the price table, projected by the final
\* select: f is a decoded trade, p a price row with p.price_id = f[3].
JoinedRecord(f, p) ==
    [set_id |-> p.set_id, id |-> p.id, name |-> p.name,
     from |-> f[1], to |-> f[2], price_id |-> f[3], price |-> <<p.price>>]

\* The row of a trade that no price row matches: nulls.
UnpricedRecord(f) ==
    [set_id |-> Null, id |-> Null, name |-> Null,
     from |-> f[1], to |-> f[2], price_id |-> f[3], price |-> NullPrice]

PriceMatches(f, pd) == {p \in pd : p.price_id = f[3]}

\* The rows one trade contributes to the join, as <<key, record>>.
JoinRows(k, f, pd) ==
    IF PriceMatches(f, pd) = {} THEN {<<k, <<>>, UnpricedRecord(f)>>}
    ELSE {<<k, <<p>>, JoinedRecord(f, p)>> : p \in PriceMatches(f, pd)}

\* The table `out` built before the validation: a bag of records.
ExtractedTable(dv, pd) ==
    LET dec == DecodedTrades(dv)
        rows == UNION {JoinRows(k, dec[k], pd) : k \in DOMAIN dec}
        recs == {i[3] : i \in rows}
    IN  [r \in recs |-> Cardinality({i \in rows : i[3] = r})]

----------------------------------------------------------------------------
(* maximize_card_distribution: the binary program *)

\* traders = list(set(map(lambda _inventory: _inventory[0], inventory.keys())))
AgentsOf(inv) == {k[1] : k \in DOMAIN inv}

\* One BoolVar per (giver, receiver, card) of product(traders, traders, cards)
\* that passes the filter _traders[0] != _traders[1].
DecisionKeys(tr, cs) == {k \in Range(tr) \X Range(tr) \X cs : k[1] # k[2]}

\* prices.get(c, default_price)
Price(c) == IF c \in DOMAIN prices THEN prices[c] ELSE default_price

\* inventory.get((agent, c), 0)
Held(agent, c) == IF <<agent, c>> \in DOMAIN inventory THEN inventory[<<agent, c>>] ELSE 0

\* The key (*traders, c).
Key(tr, c) == tr \o <<c>>

\* Faulty variant: only fewer than two traders raise.
BuildRaisesKeyErrorFewTraders(tr) == Len(tr) < 2 /\ cards # {}

\* decisions[(*traders, c)] raises KeyError unless the key was created.
BuildRaisesKeyError(tr) ==
    \E c \in cards :
        \/ Key(tr, c) \notin DecisionKeys(tr, cards)
        \/ Key(Reverse(tr), c) \notin DecisionKeys(tr, cards)

\* Every assignment of the BoolVars.
Assignments(tr) == [DecisionKeys(tr, cards) -> {0, 1}]

\* solver.Sum(decisions[(*tr, c)] * prices.get(c, default_price) for c in cards)
DirectionValue(d, tr) == SumF([c \in cards |-> d[Key(tr, c)] * Price(c)], cards)

\* Faulty variant: only the variables of the direction traders[0] -> traders[-1]
\* enter the objective.
ObjectiveFirstDirectionOnly(d, tr) ==
    LET K == {k \in DecisionKeys(tr, cards) : k[1] = tr[1]}
    IN  SumF([k \in K |-> d[k] * Price(k[3])], K)

\* The objective: the sum over every variable of value * price.
Objective(d, tr) ==
    SumF([k \in DecisionKeys(tr, cards) |-> d[k] * Price(k[3])], DecisionKeys(tr, cards))

\* Faulty variant: lhs >= rhs * (1 - price_tolerance), the tolerance not halved.
AtLeastWithinFullTolerance(lhs, rhs) ==
    LET num == price_tolerance[1]
        den == price_tolerance[2]
    IN  lhs * den >= rhs * (den - num)

\* lhs >= rhs * (1 - price_tolerance / 2), with price_tolerance = num / den.
AtLeastWithinTolerance(lhs, rhs) ==
    LET num == price_tolerance[1]
        den == price_tolerance[2]
    IN  lhs * (2 * den) >= rhs * (2 * den - num)

\* Faulty variant: only the first of the two constraints is added.
FairnessConstraintsOneSided(d, tr) ==
    AtLeastWithinTolerance(DirectionValue(d, tr), DirectionValue(d, Reverse(tr)))

\* The two fairness constraints.
FairnessConstraints(d, tr) ==
    /\ AtLeastWithinTolerance(DirectionValue(d, tr), DirectionValue(d, Reverse(tr)))
    /\ AtLeastWithinTolerance(DirectionValue(d, Reverse(tr)), DirectionValue(d, tr))

\* Faulty variant: no unit is reserved.
SupplyBoundNoReserve(agent, c) == Max(Held(agent, c), 0)

\* Faulty variant: two units are reserved instead of one.
SupplyBoundReservesTwo(agent, c) == Max(Held(agent, c) - 2, 0)

\* The bound max(inventory.get((agent, c), 0) - 1, 0).
SupplyBound(agent, c) == Max(Held(agent, c) - 1, 0)

\* Faulty variant: both bounds are read from traders[0]'s inventory.
SupplyConstraintsFirstTraderOnly(d, tr) ==
    \A c \in cards :
        /\ d[Key(tr, c)] <= SupplyBound(tr[1], c)
        /\ d[Key(Reverse(tr), c)] <= SupplyBound(tr[1], c)

\* The two supply constraints of every card: traders[0] gives, traders[-1] gives.
SupplyConstraints(d, tr) ==
    \A c \in cards :
        /\ d[Key(tr, c)] <= SupplyBound(tr[1], c)
        /\ d[Key(Reverse(tr), c)] <= SupplyBound(tr[Len(tr)], c)

\* Faulty variant: the bound is 2, so both directions may be chosen.
SingleDirectionConstraintsLoose(d, tr) ==
    \A c \in cards : d[Key(tr, c)] + d[Key(Reverse(tr), c)] <= 2

\* decisions[(*traders, c)] + decisions[(*traders[::-1], c)] <= 1
SingleDirectionConstraints(d, tr) ==
    \A c \in cards : d[Key(tr, c)] + d[Key(Reverse(tr), c)] <= 1

\* For every receiver j and card c: the sum over givers i != j is <= 1.
SingleReceiptConstraints(d, tr) ==
    \A j \in Range(tr) : \A c \in cards :
        SumF([i \in Range(tr) \ {j} |-> d[<<i, j, c>>]], Range(tr) \ {j}) <= 1

\* The constraints other than fairness.
StructuralConstraints(d, tr) ==
    /\ SupplyConstraints(d, tr)
    /\ SingleDirectionConstraints(d, tr)
    /\ SingleReceiptConstraints(d, tr)

\* Every constraint added to the solver.
Feasible(d, tr) == StructuralConstraints(d, tr) /\ FairnessConstraints(d, tr)

FeasibleAssignments(tr) == {d \in Assignments(tr) : Feasible(d, tr)}

\* What status OPTIMAL promises: the assignments of greatest objective among
\* the feasible ones F.
OptimalAmong(F, tr) ==
    LET values == {Objective(d, tr) : d \in F}
        best == CHOOSE v \in values : \A w \in values : w <= v
    IN  {d \in F : Objective(d, tr) = best}

OptimalAssignments(tr) == OptimalAmong(FeasibleAssignments(tr), tr)

----------------------------------------------------------------------------
(* Inputs *)

AgentIds == {<<"A">>, <<"B">>}

ItemIds == {<<"X">>, <<"Y">>}

\* TraderInventory._sparsify_quantity keeps only rows with quantity > 0.
Quantities == 1..MaxQty

PriceValues == {5, 10}

DefaultPrices == {0, 5}

\* price_tolerance as <<num, den>>: 0, the default 0.10, 1 and 2.
Tolerances == {<<0, 1>>, <<1, 10>>, <<1, 1>>, <<2, 1>>}

\* Every dict over a subset of the keys K with values in V.
DictsOver(K, V) == UNION {[D -> V] : D \in SUBSET K}

\* Catalogue columns carried by both tables for a price_id.
CardSet == <<"s">>

CardId(c) == <<"i">> \o c

CardName(c) == <<"n">> \o c

\* The price table whose rows_by_key('price_id') is the dict pr.
PriceTableOf(pr) ==
    {[price_id |-> c, set_id |-> CardSet, id |-> CardId(c), name |-> CardName(c),
      price |-> pr[c]] : c \in DOMAIN pr}

\* The inventory table whose rows_by_key(['trader', 'price_id']) is the dict inv.
InventoryTableOf(inv) ==
    {[trader |-> k[1], price_id |-> k[2], id |-> CardId(k[2]), name |-> CardName(k[2]),
      quantity |-> inv[k]] : k \in DOMAIN inv}

----------------------------------------------------------------------------
(* The optimise-then-extract sequence *)

Init ==
    /\ pc = "start"
    /\ cards \in SUBSET ItemIds
    /\ prices \in DictsOver(cards, PriceValues)  \* only cards' prices are looked up
    /\ inventory \in DictsOver(AgentIds \X ItemIds, Quantities)
    /\ price_tolerance \in Tolerances
    /\ default_price \in DefaultPrices
    /\ price_data = PriceTableOf(prices)
    /\ inventory_table = InventoryTableOf(inventory)
    /\ traders = <<>>
    /\ decisions = <<>>
    /\ status = "NOT_SOLVED"
    /\ out = EmptyBag
    /\ verdict = "none"
    /\ values_read = FALSE

Inputs == <<cards, prices, inventory, price_tolerance, default_price, price_data,
            inventory_table>>

\* CreateSolver returned None: the function returns the string
\* "No solver available." and the caller's tuple unpacking raises.
NoSolver ==
    /\ pc = "start"
    /\ pc' = "ValueError"
    /\ UNCHANGED <<Inputs, traders, decisions, status, out, verdict, values_read>>

\* The model is built: the traders are listed (a set's order is arbitrary), the
\* variables created, the objective and the constraints added.  Adding the
\* constraints raises KeyError when decisions[(*traders, c)] does not exist.
BuildModel ==
    /\ pc = "start"
    /\ \E tr \in Orderings(AgentsOf(inventory)) :
        /\ traders' = tr
        /\ pc' = IF BuildRaisesKeyError(tr) THEN "KeyError" ELSE "built"
    /\ UNCHANGED <<Inputs, decisions, status, out, verdict, values_read>>

\* solver.Solve() and what follows it.  The solver returns
\*   OPTIMAL with an assignment of greatest objective; the debug logging then
\*     formats _combo[0], which raises IndexError when there is no trader;
\*   FEASIBLE with the incumbent it stopped at; or
\*   ABNORMAL with no solution (solution_value() is then 0).
\* On a status other than OPTIMAL the function prints a message and returns
\* the decisions all the same.
Solve ==
    /\ pc = "built"
    /\ LET F == FeasibleAssignments(traders)
       IN  \/ /\ status' = "OPTIMAL"
              /\ \E d \in OptimalAmong(F, traders) : decisions' = d
              /\ pc' = IF Len(traders) = 0 THEN "IndexError" ELSE "solved"
           \/ /\ status' = "FEASIBLE"
              /\ \E d \in F : decisions' = d
              /\ pc' = "solved"
           \/ /\ status' = "ABNORMAL"
              /\ decisions' = [k \in DecisionKeys(traders, cards) |-> 0]
              /\ pc' = "solved"
    /\ UNCHANGED <<Inputs, traders, out, verdict, values_read>>

maximize_card_distribution == NoSolver \/ BuildModel \/ Solve

\* get_suggested_trades: read every solution value, build the table, assert
\* the validation, return the table.
get_suggested_trades ==
    /\ pc = "solved"
    /\ values_read' = (DOMAIN decisions # {})  \* one solution_value() per variable
    /\ out' = ExtractedTable(decisions, price_data)
    /\ verdict' = validate_suggested_trades(out', inventory_table)
    /\ pc' = IF verdict' = "ok" THEN "returned" ELSE "AssertionError"
    /\ UNCHANGED <<Inputs, traders, decisions, status>>

Next == maximize_card_distribution \/ get_suggested_trades

Spec == Init /\ [][Next]_vars

----------------------------------------------------------------------------
(* validate_suggested_trades on its own: any trade table, any inventory *)

\* A name the inventory file may carry for a card that the price data spells
\* differently.
OtherName == <<"n", "?">>

TradeRows ==
    {[set_id |-> CardSet, id |-> CardId(c), name |-> CardName(c),
      from |-> f, to |-> t, price_id |-> c, price |-> <<10>>] :
        f \in AgentIds, t \in AgentIds, c \in ItemIds}

InventoryRows ==
    UNION {{[trader |-> a, price_id |-> c, id |-> CardId(c), name |-> n, quantity |-> q] :
                a \in AgentIds, n \in {CardName(c), OtherName}, q \in Quantities} :
           c \in ItemIds}

InitValidate ==
    /\ pc = "validate"
    /\ out \in {BagOfSeq(s) : s \in SeqsUpTo(TradeRows, MaxTrades)}
    /\ inventory_table \in SubsetsUpTo(InventoryRows, MaxRows)
    /\ cards = {}
    /\ prices = <<>>
    /\ inventory = <<>>
    /\ price_tolerance = <<0, 1>>
    /\ default_price = 0
    /\ price_data = {}
    /\ traders = <<>>
    /\ decisions = <<>>
    /\ status = "NOT_SOLVED"
    /\ verdict = "none"
    /\ values_read = FALSE

\* One call validate_suggested_trades(suggested_trades=out, inventory=inventory_table).
ValidateCall ==
    /\ pc = "validate"
    /\ verdict' = validate_suggested_trades(out, inventory_table)
    /\ pc' = IF verdict' = "ok" THEN "accepted" ELSE "AssertionError"
    /\ UNCHANGED <<Inputs, traders, decisions, status, out, values_read>>

NextValidate == ValidateCall

SpecValidate == InitValidate /\ [][NextValidate]_vars

----------------------------------------------------------------------------
(* get_suggested_trades on its own: any decision mapping *)

\* Identifiers that are legal Python strings and that the decoding rewrites:
\* one holds a space, one a comma.
ExtractAgentIds == {<<"A">>, <<"B">>, <<"A", " ">>}

ExtractItemIds == {<<"X">>, <<"X", ",", "Y">>}

ExtractKeys == ExtractAgentIds \X ExtractAgentIds \X ExtractItemIds

ExtractPriceRows ==
    {[price_id |-> <<"X">>, set_id |-> CardSet, id |-> CardId(<<"X">>),
      name |-> CardName(<<"X">>), price |-> v] : v \in PriceValues}

ExtractInventoryRows ==
    {[trader |-> <<"A">>, price_id |-> <<"X">>, id |-> CardId(<<"X">>),
      name |-> CardName(<<"X">>), quantity |-> q] : q \in Quantities}

InitExtract ==
    /\ pc = "solved"
    /\ decisions \in UNION {[K -> {0, 1}] : K \in SubsetsUpTo(ExtractKeys, MaxKeys)}
    /\ price_data \in SUBSET ExtractPriceRows
    /\ inventory_table \in SubsetsUpTo(ExtractInventoryRows, 1)
    /\ status = "OPTIMAL"
    /\ cards = {}
    /\ prices = <<>>
    /\ inventory = <<>>
    /\ price_tolerance = <<0, 1>>
    /\ default_price = 0
    /\ traders = <<>>
    /\ out = EmptyBag
    /\ verdict = "none"
    /\ values_read = FALSE

NextExtract == get_suggested_trades

SpecExtract == InitExtract /\ [][NextExtract]_vars

----------------------------------------------------------------------------
(* The same sequence over inventories of up to three agents *)

ManyAgentIds == AgentIds \cup {<<"C">>}

\* Every card is priced, at the default tolerance 0.10 and default_price 0.0.
InitAgents ==
    /\ pc = "start"
    /\ cards \in SUBSET ItemIds
    /\ prices \in [cards -> PriceValues]
    /\ inventory \in DictsOver(ManyAgentIds \X ItemIds, Quantities)
    /\ price_tolerance = <<1, 10>>
    /\ default_price = 0
    /\ price_data = PriceTableOf(prices)
    /\ inventory_table = InventoryTableOf(inventory)
    /\ traders = <<>>
    /\ decisions = <<>>
    /\ status = "NOT_SOLVED"
    /\ out = EmptyBag
    /\ verdict = "none"
    /\ values_read = FALSE

SpecAgents == InitAgents /\ [][Next]_vars

----------------------------------------------------------------------------
(* Claims *)

\* The inventory rows of a trade's giver for the traded item.
GiverEntries(tr, inv) == {iv \in inv : iv.trader = tr.from /\ iv.price_id = tr.price_id}

\* Every giver of the table has an inventory row for the item, and every such
\* row shows a quantity of at least 2.
GiversHoldTwo(trs, inv) ==
    \A tr \in BagToSet(trs) :
        /\ GiverEntries(tr, inv) # {}
        /\ \A iv \in GiverEntries(tr, inv) : iv.quantity >= 2

\* C1 (Conservation): validate_suggested_trades accepts a trade table only if
\* every trade's giver has an inventory entry for the item with quantity >= 2;
\* a giver with quantity < 2, or with no entry for the item, causes rejection.
C1_AcceptedOnlyIfGiversHoldTwo ==
    pc = "accepted" => GiversHoldTwo(out, inventory_table)

\* C2 (the violation is named): when some (receiver, item) pair occurs in more
\* than one record and every giver holds at least 2 of what they give, the
\* validation rejects with the 'received more than once' message.
C2_DoubleReceiptIsNamed ==
    (/\ pc \in {"accepted", "AssertionError"}
     /\ ReceivedTwice(out)
     /\ GiversHoldTwo(out, inventory_table))
    => verdict = MsgReceived

\* C3 (a non-optimal solve short-circuits extraction): when the status that
\* maximize_card_distribution got from the solver is not OPTIMAL, the
\* optimise-then-extract sequence yields no trade record and never reads the
\* solution values.
C3_NonOptimalSkipsExtraction ==
    (pc # "start" /\ status # "OPTIMAL") => (~ values_read /\ out = EmptyBag)

Abs(x) == IF x >= 0 THEN x ELSE 0 - x

\* maximize_card_distribution has built its constraints over two traders.
BuiltForTwo == pc = "built" /\ Len(traders) = 2

\* maximize_card_distribution has returned its decisions over two traders.
SolvedForTwo == pc = "solved" /\ Len(traders) = 2

ValueAB(d) == DirectionValue(d, traders)

ValueBA(d) == DirectionValue(d, Reverse(traders))

\* C4 (fairness bound): with a tolerance in [0, 1], every assignment that
\* satisfies the two fairness constraints has
\* |V(a->b) - V(b->a)| <= tolerance/2 * (V(a->b) + V(b->a)), and at tolerance 0
\* the two values are equal.
C4_FairnessBound ==
    (BuiltForTwo /\ price_tolerance[1] <= price_tolerance[2]) =>
        \A d \in Assignments(traders) :
            FairnessConstraints(d, traders) =>
                /\ Abs(ValueAB(d) - ValueBA(d)) * (2 * price_tolerance[2])
                       <= price_tolerance[1] * (ValueAB(d) + ValueBA(d))
                /\ price_tolerance[1] = 0 => ValueAB(d) = ValueBA(d)

\* C4 witness: an optimal solution at a tolerance in (0, 1] whose two
\* directions carry different, positive values.
C4_Witness ==
    /\ SolvedForTwo /\ status = "OPTIMAL"
    /\ 0 < price_tolerance[1] /\ price_tolerance[1] <= price_tolerance[2]
    /\ ValueAB(decisions) > 0 /\ ValueBA(decisions) > 0
    /\ ValueAB(decisions) # ValueBA(decisions)

C6_SupplyBound ==
    BuiltForTwo =>
        \A d \in Assignments(traders) :
            SupplyConstraints(d, traders) =>
                \A k \in DOMAIN d :
                    d[k] >= 1 =>
                        /\ <<k[1], k[3]>> \in DOMAIN inventory
                        /\ inventory[<<k[1], k[3]>>] >= 2

\* C6 witness: a solve that selects a trade while one agent holds a single unit
\* of a card and another card has no entry for an agent.
C6_Witness ==
    /\ SolvedForTwo /\ status = "OPTIMAL"
    /\ \E k \in DOMAIN decisions : decisions[k] = 1
    /\ \E a \in Range(traders), c \in cards :
        <<a, c>> \in DOMAIN inventory /\ inventory[<<a, c>>] = 1
    /\ \E a \in Range(traders), c \in cards : <<a, c>> \notin DOMAIN inventory

\* C7 (no double use): in every feasible assignment each item is selected in
\* at most one decision variable, and in every table get_suggested_trades
\* returns each item appears in at most one trade record.
C7_NoDoubleUse ==
    /\ BuiltForTwo =>
        \A d \in Assignments(traders) :
            Feasible(d, traders) =>
                \A c \in cards :
                    Cardinality({k \in DOMAIN d : k[3] = c /\ d[k] >= 1}) <= 1
    /\ pc = "returned" =>
        \A r \in BagToSet(out) :
            CountRows(out, {"price_id"}, GroupKey(r, {"price_id"})) = 1

\* C7 witness: a table of two trades is returned although both agents hold a
\* spare unit of the same card.
C7_Witness ==
    /\ pc = "returned" /\ Len(traders) = 2
    /\ BagCardinality(out) = 2
    /\ \E c \in cards : \A a \in Range(traders) :
        <<a, c>> \in DOMAIN inventory /\ inventory[<<a, c>>] >= 2

\* The simple-swap scenario: A holds 2 of X, B holds 2 of Y, both priced 10,
\* items {X, Y}, tolerance 0.
SimpleSwap ==
    /\ cards = {<<"X">>, <<"Y">>}
    /\ inventory = (<< <<"A">>, <<"X">> >> :> 2) @@ (<< <<"B">>, <<"Y">> >> :> 2)
    /\ prices = (<<"X">> :> 10) @@ (<<"Y">> :> 10)
    /\ price_tolerance = <<0, 1>>

\* C10 (simple swap): in that scenario the optimal assignment selects exactly
\* A -> B of X and B -> A of Y, with objective value 20.
C10_SimpleSwap ==
    (SimpleSwap /\ pc = "solved" /\ status = "OPTIMAL") =>
        /\ Selected(decisions) =
               {<< <<"A">>, <<"B">>, <<"X">> >>, << <<"B">>, <<"A">>, <<"Y">> >>}
        /\ Objective(decisions, traders) = 20

\* C10 witness: the scenario solved to optimality.
C10_Witness == SimpleSwap /\ pc = "solved" /\ status = "OPTIMAL"

\* The decision mapping is one maximize_card_distribution creates for two
\* distinct traders.
CreatedForTwoTraders ==
    \E a \in ExtractAgentIds, b \in ExtractAgentIds :
        /\ a # b
        /\ \E cs \in SUBSET ExtractItemIds :
            cs # {} /\ DOMAIN decisions = DecisionKeys(<<a, b>>, cs)

\* C8 (no self-trade): decision variables are created only for giver # receiver,
\* and no trade record that get_suggested_trades produces from such a mapping
\* has from = to.
C8_NoSelfTrade ==
    /\ \A a \in ExtractAgentIds, b \in ExtractAgentIds :
        \A k \in DecisionKeys(<<a, b>>, ExtractItemIds) : k[1] # k[2]
    /\ (pc = "returned" /\ CreatedForTwoTraders) =>
        \A r \in BagToSet(out) : r.from # r.to

\* The price table has at most one row per item.
OnePricePerItem == \A p \in price_data, q \in price_data : p.price_id = q.price_id => p = q

\* C9 (keys are decoded faithfully): with at most one price row per item, the
\* (from, to, price_id) triples of the table get_suggested_trades builds are
\* exactly the keys whose solved value is > 0.
C9_DecodingRoundTrip ==
    (pc = "returned" /\ OnePricePerItem) =>
        {<<r.from, r.to, r.price_id>> : r \in BagToSet(out)} = Selected(decisions)


\* The market value an assignment moves: the sum of price over its selected
\* (giver, receiver, item) variables, an item absent from the price mapping
\* counting default_price.
TradedValue(d) ==
    SumF([k \in DOMAIN d |->
            d[k] * (IF k[3] \in DOMAIN prices THEN prices[k[3]] ELSE default_price)],
         DOMAIN d)

\* C11 (objective maximality): when the solve is OPTIMAL, the returned
\* assignment satisfies the fairness, supply, single-direction and
\* single-receipt constraints and no assignment satisfying them moves a
\* greater value, unpriced items being valued at default_price.
C11_ObjectiveMaximal ==
    (status = "OPTIMAL" /\ pc \in {"solved", "returned", "AssertionError"}) =>
        /\ Feasible(decisions, traders)
        /\ \A d \in Assignments(traders) :
              Feasible(d, traders) => TradedValue(d) <= TradedValue(decisions)

\* C11 witness: an optimal solution for two traders that selects an item
\* priced only by a positive default_price and beats some feasible assignment.
C11_Witness ==
    /\ SolvedForTwo /\ status = "OPTIMAL"
    /\ default_price > 0
    /\ \E k \in Selected(decisions) : k[3] \notin DOMAIN prices
    /\ \E d \in FeasibleAssignments(traders) : TradedValue(d) < TradedValue(decisions)


\* C12 (empty inputs solve trivially): when the item set is empty or the
\* inventory keys yield no agent, maximize_card_distribution ends without an
\* error and the mapping it returns has no variable and so no trade.
C12_EmptyInputsSolve ==
    (pc \notin {"start", "ValueError"} /\ (cards = {} \/ AgentsOf(inventory) = {})) =>
        /\ pc \notin {"KeyError", "IndexError"}
        /\ DOMAIN decisions = {}


\* The four checks of validate_suggested_trades all hold on table t.
AllFourChecksHold(t, inv) ==
    /\ ~ GiverLacks(t, inv)
    /\ ~ TradedTwice(t)
    /\ ~ ReceivedTwice(t)
    /\ ~ GivenTwice(t)

\* C13 (fail-fast, whole-batch validation): get_suggested_trades returns a
\* table only if it is the table it built and all four checks of
\* validate_suggested_trades held on it; when a check fails on the built table
\* the call ends in the AssertionError and returns nothing.
C13_FailFastValidation ==
    /\ pc = "returned" =>
          /\ verdict = "ok"
          /\ out = ExtractedTable(decisions, price_data)
          /\ AllFourChecksHold(out, inventory_table)
    /\ (pc # "solved"
          /\ ~ AllFourChecksHold(ExtractedTable(decisions, price_data), inventory_table)) =>
          pc = "AssertionError"

\* C13 witness: a table of several records, whose givers' rows pass check 1,
\* is rejected as a whole.
C13_Witness ==
    /\ pc = "AssertionError"
    /\ Cardinality(BagToSet(out)) >= 2
    /\ ~ GiverLacks(out, inventory_table)


\* The trade record a selected key stands for, its join columns spelled as the
\* inventory table spells them.
CorrectRecord(k) ==
    [set_id |-> CardSet, id |-> CardId(k[3]), name |-> CardName(k[3]),
     from |-> k[1], to |-> k[2], price_id |-> k[3], price |-> <<Price(k[3])>>]

\* The trade table of an assignment, every selected key decoded correctly.
CorrectlyDecoded(d) == SetToBag({CorrectRecord(k) : k \in Selected(d)})

\* C14 (solver constraints imply validator acceptance): for two traders and
\* an inventory with one entry per (agent, item), every assignment satisfying
\* the supply, single-direction and single-receipt constraints, decoded
\* correctly, passes the four checks of validate_suggested_trades.
C14_ConstraintsImplyAcceptance ==
    BuiltForTwo =>
        \A d \in Assignments(traders) :
            StructuralConstraints(d, traders) =>
                /\ AllFourChecksHold(CorrectlyDecoded(d), inventory_table)
                /\ validate_suggested_trades(CorrectlyDecoded(d), inventory_table) = "ok"

\* C14 witness: a model for two traders with an assignment that satisfies the
\* three constraints and moves items in both directions.
C14_Witness ==
    /\ BuiltForTwo
    /\ \E d \in Assignments(traders) :
          /\ StructuralConstraints(d, traders)
          /\ \E k \in Selected(d), l \in Selected(d) : k[1] # l[1]


\* C15 (exactly two agents): when the inventory keys yield a number of agents
\* other than two and the item set is not empty, maximize_card_distribution
\* (given a solver) raises KeyError while adding the constraints: nothing is
\* solved and no decision mapping is returned.
C15_TwoAgentsOrKeyError ==
    (/\ pc \notin {"start", "ValueError"}
     /\ Cardinality(AgentsOf(inventory)) # 2
     /\ cards # {}) =>
        /\ pc = "KeyError"
        /\ status = "NOT_SOLVED"
        /\ decisions = <<>>

\* C15 witness: three agents, a non-empty item set, and the KeyError.
C15_Witness ==
    /\ pc = "KeyError"
    /\ Cardinality(AgentsOf(inventory)) = 3
    /\ Len(traders) = 3

====
